---- MODULE Spec2Model ----
(***************************************************************************)
(* State-vector quantum circuit emulator: Complex / Matrix                 *)
(* (math-extensions.ts) and QuantumState / QuantumRegister / QuantumGates  *)
(* / QuantumCircuit (quantum-emulator.ts).                                 *)
(*                                                                         *)
(* Numbers.  Every number the gate library produces from X, H, Z and the   *)
(* identity lies in Z[sqrt 2] / 2^k.  A number is the triple <<a, b, k>>   *)
(* standing for (a + b*sqrt(2)) / 2^k, kept in lowest terms, so that       *)
(* equality of values is equality of triples.  Arithmetic is exact (the    *)
(* IEEE rounding of the TypeScript doubles is not modelled).               *)
(***************************************************************************)
EXTENDS Integers, Sequences, FiniteSets, TLC

VARIABLES
    qubitCount,   \* QuantumRegister.qubitCount
    amplitudes,   \* QuantumState.amplitudes of the live state
    gates,        \* QuantumCircuit.gates, the gate log
    pc,           \* "idle", or "run" while QuantumCircuit.run is in its loop
    trials,       \* run's argument
    i,            \* run's loop counter
    results,      \* run's histogram under construction
    last,         \* the last call: [op, params, r, ret, error]; a getState call
                  \* also notes the operation it came after
    tracking,     \* whether built is kept
    built,        \* the add* and run calls made since construction or the caller's
                  \* last reset()
    runLog,       \* the gate log as it was when run was called
    trial,        \* what run's last trial did: [replayed, measured, bits, key]
    opCount       \* calls made on a QuantumState used on its own

vars == <<qubitCount, amplitudes, gates, pc, trials, i, results, last, tracking,
          built, runLog, trial, opCount>>

(***************************************************************************)
(* Bounds of the model.                                                    *)
(***************************************************************************)
MaxQubits == 2
MaxGates  == 1
MaxBuilt  == 2
MaxTrials == 2
MaxOps    == 3

(***************************************************************************)
(* Exact numbers (a + b*sqrt(2)) / 2^k.                                    *)
(***************************************************************************)
RECURSIVE Norm(_, _, _)
Norm(a, b, k) ==
    IF k > 0 /\ a % 2 = 0 /\ b % 2 = 0
    THEN Norm(a \div 2, b \div 2, k - 1)
    ELSE <<a, b, k>>

Zero    == <<0, 0, 0>>
One     == <<1, 0, 0>>
MinusOne == <<-1, 0, 0>>
InvSqrt2 == <<0, 1, 1>>          \* 1 / Math.sqrt(2) = sqrt(2) / 2

Max(x, y) == IF x >= y THEN x ELSE y

NAdd(x, y) ==
    LET k == Max(x[3], y[3])
    IN  Norm(x[1] * 2^(k - x[3]) + y[1] * 2^(k - y[3]),
             x[2] * 2^(k - x[3]) + y[2] * 2^(k - y[3]), k)

NNeg(x) == <<-x[1], -x[2], x[3]>>

NSub(x, y) == NAdd(x, NNeg(y))

NMul(x, y) ==
    Norm(x[1] * y[1] + 2 * x[2] * y[2], x[1] * y[2] + x[2] * y[1], x[3] + y[3])

\* a + b*sqrt(2) >= 0
NonNeg(x) ==
    LET a == x[1]
        b == x[2]
    IN  IF a >= 0 /\ b >= 0 THEN TRUE
        ELSE IF a < 0 /\ b < 0 THEN FALSE
        ELSE IF a >= 0 THEN a * a >= 2 * b * b
        ELSE 2 * b * b >= a * a

NLeq(x, y) == NonNeg(NSub(y, x))

(***************************************************************************)
(* Complex (math-extensions.ts).                                           *)
(***************************************************************************)
Complex(re, im) == [real |-> re, imag |-> im]

CZero == Complex(Zero, Zero)
COne  == Complex(One, Zero)

\* add and multiply are the source's formulas; the cases of an operand 0 or 1
\* are the same values, computed without the arithmetic
add(x, y) ==
    IF x = CZero THEN y
    ELSE IF y = CZero THEN x
    ELSE Complex(NAdd(x.real, y.real), NAdd(x.imag, y.imag))

multiply(x, y) ==
    IF x = CZero \/ y = CZero THEN CZero
    ELSE IF x = COne THEN y
    ELSE IF y = COne THEN x
    ELSE Complex(NSub(NMul(x.real, y.real), NMul(x.imag, y.imag)),
                 NAdd(NMul(x.real, y.imag), NMul(x.imag, y.real)))

magnitudeSquared(x) == NAdd(NMul(x.real, x.real), NMul(x.imag, x.imag))

(***************************************************************************)
(* Matrix (math-extensions.ts): data[row][col], rows and columns from 0.   *)
(* A matrix is its data with data.length (rows) and data[0].length (cols)  *)
(* kept beside it.  A vector is a function on 0 .. length-1.               *)
(***************************************************************************)
Length(v) == Cardinality(DOMAIN v)

\* new Matrix(data)
Matrix(data) ==
    [rows |-> Cardinality(DOMAIN data),
     cols |-> IF Cardinality(DOMAIN data) > 0 THEN Cardinality(DOMAIN data[0]) ELSE 0,
     data |-> data]

identity(size) ==
    [rows |-> size, cols |-> size,
     data |-> [r \in 0 .. size - 1 |->
                 [c \in 0 .. size - 1 |-> IF r = c THEN COne ELSE CZero]]]

getDimensions(m) == [rows |-> m.rows, cols |-> m.cols]

\* the inner loop of multiplyVector: result[i] after columns j .. cols-1 are added
RECURSIVE rowSum(_, _, _, _, _)
rowSum(row, vector, j, cols, acc) ==
    IF j >= cols THEN acc
    ELSE rowSum(row, vector, j + 1, cols, add(acc, multiply(row[j], vector[j])))

Thrown(e) == [ok |-> FALSE, error |-> e]
Returned(v) == [ok |-> TRUE, value |-> v]

\* multiplyVector with the vector's length compared with the row count
multiplyVectorRows(m, vector) ==
    LET d == getDimensions(m)
    IN  IF Length(vector) # d.rows
        THEN Thrown("DimensionMismatch")
        ELSE Returned([r \in 0 .. d.rows - 1 |->
                          rowSum(m.data[r], vector, 0, d.cols, CZero)])

multiplyVector(m, vector) ==
    LET d == getDimensions(m)
    IN  IF Length(vector) # d.cols
        THEN Thrown("DimensionMismatch")
        ELSE Returned([r \in 0 .. d.rows - 1 |->
                          rowSum(m.data[r], vector, 0, d.cols, CZero)])

tensorProduct(a, b) ==
    LET d1 == getDimensions(a)
        d2 == getDimensions(b)
    IN  [rows |-> d1.rows * d2.rows, cols |-> d1.cols * d2.cols,
         data |-> [row \in 0 .. d1.rows * d2.rows - 1 |->
                    [col \in 0 .. d1.cols * d2.cols - 1 |->
                        multiply(a.data[row \div d2.rows][col \div d2.cols],
                                 b.data[row % d2.rows][col % d2.cols])]]]

(***************************************************************************)
(* QuantumState (quantum-emulator.ts).                                     *)
(***************************************************************************)
\* constructor: all amplitudes 0, then amplitudes[0] = 1
QuantumState(size) == [idx \in 0 .. size - 1 |-> IF idx = 0 THEN COne ELSE CZero]

\* the vector measure() writes on collapse to index k
Collapsed(len, k) == [idx \in 0 .. len - 1 |-> IF idx = k THEN COne ELSE CZero]

getProbability(amps, idx) == magnitudeSquared(amps[idx])

applyGate(amps, matrix) == multiplyVector(matrix, amps)

\* measure()'s loop from index idx on: the index at which it returns, or -1
\* when the loop ends without returning
RECURSIVE measureScan(_, _, _, _)
measureScan(amps, random, idx, cumulative) ==
    IF idx >= Length(amps) THEN -1
    ELSE LET c == NAdd(cumulative, magnitudeSquared(amps[idx]))
         IN  IF NLeq(random, c) THEN idx
             ELSE measureScan(amps, random, idx + 1, c)

measure(amps, random) ==
    LET k == measureScan(amps, random, 0, Zero)
    IN  IF k >= 0
        THEN [outcome |-> k, amplitudes |-> Collapsed(Length(amps), k)]
        ELSE [outcome |-> 0, amplitudes |-> amps]

RECURSIVE Log2(_)
Log2(len) == IF len <= 1 THEN 0 ELSE 1 + Log2(len \div 2)

getQubitCount(amps) == Log2(Length(amps))

clone(amps) == [idx \in 0 .. Length(amps) - 1 |-> Complex(amps[idx].real, amps[idx].imag)]

(***************************************************************************)
(* QuantumGates.                                                           *)
(***************************************************************************)
\* new Matrix([[a, b], [c, d]])
Mat2(a, b, c, d) ==
    Matrix([r \in 0 .. 1 |-> [c2 \in 0 .. 1 |->
        IF r = 0 THEN (IF c2 = 0 THEN a ELSE b) ELSE (IF c2 = 0 THEN c ELSE d)]])

X == Mat2(CZero, COne, COne, CZero)

Z == Mat2(COne, CZero, CZero, Complex(MinusOne, Zero))

H == Mat2(Complex(InvSqrt2, Zero), Complex(InvSqrt2, Zero),
          Complex(InvSqrt2, Zero), Complex(NNeg(InvSqrt2), Zero))

(***************************************************************************)
(* QuantumRegister.  Bit operations on non-negative 32-bit integers.       *)
(***************************************************************************)
\* (x >> q) & 1
BitAt(x, q) == (x \div 2^q) % 2

\* x ^ (1 << t)
FlipBit(x, t) == IF BitAt(x, t) = 1 THEN x - 2^t ELSE x + 2^t

RECURSIVE expandLoop(_, _, _, _, _)
expandLoop(result, idx, n, gate, qubitIndex) ==
    IF idx >= n THEN result
    ELSE expandLoop(tensorProduct(result, IF idx = qubitIndex THEN gate ELSE identity(2)),
                    idx + 1, n, gate, qubitIndex)

expandSingleQubitGate(n, gate, qubitIndex) ==
    expandLoop(identity(2), 0, n, gate, qubitIndex)

applySingleQubitGate(amps, n, gate, qubitIndex) ==
    applyGate(amps, expandSingleQubitGate(n, gate, qubitIndex))

\* the inner j-loop of createCNOT: rows a and b change places
SwapRows(data, a, b) == [data EXCEPT ![a] = data[b], ![b] = data[a]]

\* createCNOT's loop from row idx on.  Reading matrix.data[flipped][j] for a
\* flipped that is no row of the matrix raises a TypeError.
RECURSIVE createCNOTLoop(_, _, _, _, _)
createCNOTLoop(data, idx, size, control, target) ==
    IF idx >= size THEN Returned(data)
    ELSE IF BitAt(idx, control) = 1
         THEN LET flipped == FlipBit(idx, target)
              IN  IF idx # flipped
                  THEN IF flipped \notin DOMAIN data
                       THEN Thrown("TypeError")
                       ELSE createCNOTLoop(SwapRows(data, idx, flipped), idx + 1,
                                           size, control, target)
                  ELSE createCNOTLoop(data, idx + 1, size, control, target)
         ELSE createCNOTLoop(data, idx + 1, size, control, target)

createCNOT(n, control, target) ==
    LET looped == createCNOTLoop(identity(2^n).data, 0, 2^n, control, target)
    IN  IF looped.ok THEN Returned([identity(2^n) EXCEPT !.data = looped.value])
        ELSE looped

applyCNOT(amps, n, controlQubit, targetQubit) ==
    LET cnot == createCNOT(n, controlQubit, targetQubit)
    IN  IF cnot.ok THEN applyGate(amps, cnot.value) ELSE cnot

measureQubit(amps, qubitIndex, random) ==
    LET m == measure(amps, random)
    IN  [bit |-> BitAt(m.outcome, qubitIndex), amplitudes |-> m.amplitudes]

\* QuantumRegister.reset
registerReset(n) == QuantumState(2^n)

(***************************************************************************)
(* QuantumCircuit.                                                         *)
(***************************************************************************)
createCNOTMatrix ==
    Matrix([r \in 0 .. 3 |-> [c \in 0 .. 3 |->
        IF (r < 2 /\ r = c) \/ (r = 2 /\ c = 3) \/ (r = 3 /\ c = 2)
        THEN COne ELSE CZero]])

GateRecord(gate, qubits) == [gate |-> gate, qubits |-> qubits]

\* reset without this.register.reset()
resetLogOnly(n) == [amplitudes |-> amplitudes, gates |-> <<>>]

\* QuantumCircuit.reset: the register is reset and the gate log emptied
reset(n) == [amplitudes |-> registerReset(n), gates |-> <<>>]

\* run's "re-apply all gates" loop from record k of log on; applied lists the
\* register operations it called
RECURSIVE replayLoop(_, _, _, _, _)
replayLoop(amps, log, k, n, applied) ==
    IF k > Len(log) THEN [ok |-> TRUE, amplitudes |-> amps, applied |-> applied]
    ELSE LET rec == log[k]
             res == IF Len(rec.qubits) = 1
                    THEN applySingleQubitGate(amps, n, rec.gate, rec.qubits[1])
                    ELSE IF Len(rec.qubits) = 2
                         THEN applyCNOT(amps, n, rec.qubits[1], rec.qubits[2])
                         ELSE Returned(amps)
             now == IF Len(rec.qubits) \in {1, 2} THEN Append(applied, rec.qubits)
                    ELSE applied
         IN  IF res.ok THEN replayLoop(res.value, log, k + 1, n, now)
             ELSE [ok |-> FALSE, error |-> res.error, amplitudes |-> amps, applied |-> now]

\* run's "measure all qubits" loop from qubit j on: result = bit + result
RECURSIVE measureAllLoop(_, _, _, _, _, _)
measureAllLoop(amps, randoms, j, count, result, bits) ==
    IF j >= count THEN [amplitudes |-> amps, key |-> result, bits |-> bits]
    ELSE LET m == measureQubit(amps, j, randoms[j])
         IN  measureAllLoop(m.amplitudes, randoms, j + 1, count,
                            <<m.bit>> \o result, bits @@ (j :> m.bit))

\* results.set(result, 1)
tallyOverwrite(map, key) == (key :> 1) @@ map

\* results.set(result, (results.get(result) || 0) + 1)
tally(map, key) ==
    IF key \in DOMAIN map THEN [map EXCEPT ![key] = @ + 1] ELSE map @@ (key :> 1)

EmptyMap == [k \in {} |-> 0]

(***************************************************************************)
(* Inputs.                                                                 *)
(***************************************************************************)
\* qubit indices a caller passes: the valid ones and one past the last
Indices == 0 .. qubitCount

\* values of Math.random(): 0, 1/2, 3/4
Draws == {Zero, <<1, 0, 1>>, <<3, 0, 2>>}

\* no value of Math.random() was drawn
NoDraw == <<>>

\* the record of a call.  Two records of the same op hold values of the same
\* kinds: params a tuple, r a number or NoDraw, ret as the operation returns
Call(op, params, r, value, err) ==
    [op |-> op, params |-> params, r |-> r, ret |-> value, error |-> err]

NoTrial == [done |-> FALSE, replayed |-> <<>>, measured |-> <<>>, bits |-> <<>>,
            key |-> <<>>]

(***************************************************************************)
(* The circuit as its caller drives it.  A call that raises leaves the     *)
(* error in last.error and the caller goes on.  While tracking is on,      *)
(* built records the add* and run calls the caller has made.               *)
(***************************************************************************)
Start(n, track) ==
    /\ qubitCount = n
    /\ amplitudes = QuantumState(2^n)
    /\ gates = <<>>
    /\ pc = "idle"
    /\ trials = 0
    /\ i = 0
    /\ results = EmptyMap
    /\ last = Call("new", <<n>>, NoDraw, "void", "none")
    /\ tracking = track
    /\ built = <<>>
    /\ runLog = <<>>
    /\ trial = NoTrial
    /\ opCount = 0

Init == \E n \in 1 .. MaxQubits : Start(n, FALSE)

\* the model's bounds on an add* call and on a run call
MayAdd == Len(gates) < MaxGates /\ (tracking => Len(built) < MaxBuilt)

MayRun == tracking => Len(built) <= MaxBuilt

Track(op, qubits) ==
    IF tracking THEN Append(built, [op |-> op, qubits |-> qubits]) ELSE built

\* addHadamard / addX: apply live, then push the record
addSingle(op, gate, qubitIndex) ==
    /\ pc = "idle"
    /\ MayAdd
    /\ LET res == applySingleQubitGate(amplitudes, qubitCount, gate, qubitIndex)
       IN  /\ amplitudes' = IF res.ok THEN res.value ELSE amplitudes
           /\ gates' = IF res.ok THEN Append(gates, GateRecord(gate, <<qubitIndex>>))
                       ELSE gates
           /\ last' = Call(op, <<qubitIndex>>, NoDraw, "void",
                           IF res.ok THEN "none" ELSE res.error)
    /\ built' = Track(op, <<qubitIndex>>)
    /\ runLog' = <<>>
    /\ trial' = NoTrial
    /\ UNCHANGED <<qubitCount, pc, trials, i, results, tracking, opCount>>

addHadamard(qubitIndex) == addSingle("addHadamard", H, qubitIndex)

addX(qubitIndex) == addSingle("addX", X, qubitIndex)

addCNOT(controlQubit, targetQubit) ==
    /\ pc = "idle"
    /\ MayAdd
    /\ LET res == applyCNOT(amplitudes, qubitCount, controlQubit, targetQubit)
       IN  /\ amplitudes' = IF res.ok THEN res.value ELSE amplitudes
           /\ gates' = IF res.ok
                       THEN Append(gates, GateRecord(createCNOTMatrix,
                                                     <<controlQubit, targetQubit>>))
                       ELSE gates
           /\ last' = Call("addCNOT", <<controlQubit, targetQubit>>, NoDraw, "void",
                           IF res.ok THEN "none" ELSE res.error)
    /\ built' = Track("addCNOT", <<controlQubit, targetQubit>>)
    /\ runLog' = <<>>
    /\ trial' = NoTrial
    /\ UNCHANGED <<qubitCount, pc, trials, i, results, tracking, opCount>>

circuitMeasure(qubitIndex, random) ==
    /\ pc = "idle"
    /\ LET m == measureQubit(amplitudes, qubitIndex, random)
       IN  /\ amplitudes' = m.amplitudes
           /\ last' = Call("measure", <<qubitIndex>>, NoDraw, m.bit, "none")
    /\ runLog' = <<>>
    /\ trial' = NoTrial
    /\ UNCHANGED <<qubitCount, gates, pc, trials, i, results, tracking, built, opCount>>

getState ==
    /\ pc = "idle"
    /\ last' = [op |-> "getState", params |-> <<>>, r |-> NoDraw,
                ret |-> clone(amplitudes), error |-> "none", after |-> last.op]
    /\ runLog' = <<>>
    /\ trial' = NoTrial
    /\ UNCHANGED <<qubitCount, amplitudes, gates, pc, trials, i, results, tracking,
                   built, opCount>>

circuitReset ==
    /\ pc = "idle"
    /\ amplitudes' = reset(qubitCount).amplitudes
    /\ gates' = reset(qubitCount).gates
    /\ last' = Call("reset", <<>>, NoDraw, "void", "none")
    /\ built' = <<>>
    /\ runLog' = <<>>
    /\ trial' = NoTrial
    /\ UNCHANGED <<qubitCount, pc, trials, i, results, tracking, opCount>>

\* run(trials): const results = new Map(); the loop starts at i = 0
runBegin(trialCount) ==
    /\ pc = "idle"
    /\ MayRun
    /\ pc' = "run"
    /\ trials' = trialCount
    /\ i' = 0
    /\ results' = EmptyMap
    /\ runLog' = gates
    /\ trial' = NoTrial
    /\ last' = Call("run", <<trialCount>>, NoDraw, EmptyMap, "none")
    /\ built' = Track("run", <<>>)
    /\ UNCHANGED <<qubitCount, amplitudes, gates, tracking, opCount>>

\* one iteration of run's loop: this.reset(), the replay of this.gates, the
\* measurement of every qubit, the tally.  An error raised by the replay ends
\* the call.
runTrial ==
    /\ pc = "run"
    /\ i < trials
    /\ LET fresh == reset(qubitCount)
           rp == replayLoop(fresh.amplitudes, fresh.gates, 1, qubitCount, <<>>)
           count == getQubitCount(clone(rp.amplitudes))
       IN  IF rp.ok
           THEN \E randoms \in [0 .. count - 1 -> Draws] :
                  LET all == measureAllLoop(rp.amplitudes, randoms, 0, count, <<>>, <<>>)
                  IN  /\ amplitudes' = all.amplitudes
                      /\ gates' = fresh.gates
                      /\ results' = tally(results, all.key)
                      /\ i' = i + 1
                      /\ trial' = [done |-> TRUE, replayed |-> rp.applied,
                                   measured |-> rp.amplitudes, bits |-> all.bits,
                                   key |-> all.key]
                      /\ UNCHANGED <<pc, trials, last>>
           ELSE /\ amplitudes' = rp.amplitudes
                /\ gates' = fresh.gates
                /\ pc' = "idle"
                /\ last' = [last EXCEPT !.error = rp.error]
                /\ trial' = [NoTrial EXCEPT !.replayed = rp.applied]
                /\ trials' = 0
                /\ i' = 0
                /\ results' = EmptyMap
    /\ UNCHANGED <<qubitCount, tracking, built, runLog, opCount>>

\* the loop has ended: return results
runReturn ==
    /\ pc = "run"
    /\ ~(i < trials)
    /\ pc' = "idle"
    /\ last' = [last EXCEPT !.ret = results]
    /\ trials' = 0
    /\ i' = 0
    /\ results' = EmptyMap
    /\ UNCHANGED <<qubitCount, amplitudes, gates, tracking, built, runLog, trial,
                   opCount>>

Next ==
    \/ \E q \in Indices : addHadamard(q)
    \/ \E q \in Indices : addX(q)
    \/ \E c \in Indices, t \in Indices : addCNOT(c, t)
    \/ \E q \in Indices, r \in Draws : circuitMeasure(q, r)
    \/ getState
    \/ circuitReset
    \/ \E t \in 0 .. MaxTrials : runBegin(t)
    \/ runTrial
    \/ runReturn

Spec == Init /\ [][Next]_vars

\* the same circuit with the record of the caller's add* calls kept
InitScenario == \E n \in 1 .. MaxQubits : Start(n, TRUE)

SpecScenario == InitScenario /\ [][Next]_vars

(***************************************************************************)
(* A QuantumState used on its own: new QuantumState(1 << n), then any      *)
(* applyGate(matrix) and measure() calls.                                  *)
(***************************************************************************)
Half == Mat2(Complex(<<1, 0, 1>>, Zero), CZero, CZero, Complex(<<1, 0, 1>>, Zero))

Rect == tensorProduct(identity(2), Matrix([r \in 0 .. 1 |-> [c \in 0 .. 0 |->
                                             IF r = 0 THEN COne ELSE CZero]]))

\* matrices a caller passes to applyGate: the gates, a 4x4 operator, a
\* non-unitary 2x2 matrix and a 4x2 matrix
Matrices == {X, Z, H, identity(2), Half, identity(4), createCNOTMatrix, Rect}

stateApplyGate(matrix) ==
    /\ opCount < MaxOps
    /\ LET res == applyGate(amplitudes, matrix)
       IN  /\ amplitudes' = IF res.ok THEN res.value ELSE amplitudes
           /\ last' = Call("applyGate", <<matrix>>, NoDraw, "void",
                           IF res.ok THEN "none" ELSE res.error)
    /\ opCount' = opCount + 1
    /\ UNCHANGED <<qubitCount, gates, pc, trials, i, results, tracking, built, runLog,
                   trial>>

stateMeasure(random) ==
    /\ opCount < MaxOps
    /\ LET m == measure(amplitudes, random)
       IN  /\ amplitudes' = m.amplitudes
           /\ last' = Call("measure", <<>>, random, m.outcome, "none")
    /\ opCount' = opCount + 1
    /\ UNCHANGED <<qubitCount, gates, pc, trials, i, results, tracking, built, runLog,
                   trial>>

NextState ==
    \/ \E m \in Matrices : stateApplyGate(m)
    \/ \E r \in Draws : stateMeasure(r)

SpecState == Init /\ [][NextState]_vars

(***************************************************************************)
(* A QuantumRegister used on its own: new QuantumRegister(n), then any     *)
(* applySingleQubitGate, applyCNOT, measureQubit and reset calls with      *)
(* qubit indices in [0, n).                                                *)
(***************************************************************************)
\* new Matrix([[1], [0]]): two rows of one column
Column == Matrix([r \in 0 .. 1 |-> [c \in 0 .. 0 |-> IF r = 0 THEN COne ELSE CZero]])

\* matrices a caller passes as the gate: the library's gates and a 2x1 matrix
RegisterGates == {X, Z, H, Column}

RegisterIndices == 0 .. qubitCount - 1

registerApplySingleQubitGate(gate, qubitIndex) ==
    /\ LET res == applySingleQubitGate(amplitudes, qubitCount, gate, qubitIndex)
       IN  /\ amplitudes' = IF res.ok THEN res.value ELSE amplitudes
           /\ last' = Call("applySingleQubitGate", <<gate, qubitIndex>>, NoDraw, "void",
                           IF res.ok THEN "none" ELSE res.error)
    /\ UNCHANGED <<qubitCount, gates, pc, trials, i, results, tracking, built, runLog,
                   trial, opCount>>

registerApplyCNOT(controlQubit, targetQubit) ==
    /\ LET res == applyCNOT(amplitudes, qubitCount, controlQubit, targetQubit)
       IN  /\ amplitudes' = IF res.ok THEN res.value ELSE amplitudes
           /\ last' = Call("applyCNOT", <<controlQubit, targetQubit>>, NoDraw, "void",
                           IF res.ok THEN "none" ELSE res.error)
    /\ UNCHANGED <<qubitCount, gates, pc, trials, i, results, tracking, built, runLog,
                   trial, opCount>>

registerMeasureQubit(qubitIndex, random) ==
    /\ LET m == measureQubit(amplitudes, qubitIndex, random)
       IN  /\ amplitudes' = m.amplitudes
           /\ last' = Call("measureQubit", <<qubitIndex>>, random, m.bit, "none")
    /\ UNCHANGED <<qubitCount, gates, pc, trials, i, results, tracking, built, runLog,
                   trial, opCount>>

registerResetCall ==
    /\ amplitudes' = registerReset(qubitCount)
    /\ last' = Call("reset", <<>>, NoDraw, "void", "none")
    /\ UNCHANGED <<qubitCount, gates, pc, trials, i, results, tracking, built, runLog,
                   trial, opCount>>

NextRegister ==
    \/ \E g \in RegisterGates, q \in RegisterIndices : registerApplySingleQubitGate(g, q)
    \/ \E c \in RegisterIndices, t \in RegisterIndices : registerApplyCNOT(c, t)
    \/ \E q \in RegisterIndices, r \in Draws : registerMeasureQubit(q, r)
    \/ registerResetCall

SpecRegister == Init /\ [][NextRegister]_vars

(***************************************************************************)
(* What the claims speak of.                                               *)
(***************************************************************************)
\* x with bit q set to b
SetBit(x, q, b) == x - BitAt(x, q) * 2^q + b * 2^q

\* a 2x2 gate acting on qubit q of a state vector
ActOn(gate, q, amps) ==
    [idx \in DOMAIN amps |->
        add(multiply(gate.data[BitAt(idx, q)][0], amps[SetBit(idx, q, 0)]),
            multiply(gate.data[BitAt(idx, q)][1], amps[SetBit(idx, q, 1)]))]

\* the controlled-NOT permutation of basis indices
CNOTImage(idx, control, target) ==
    IF BitAt(idx, control) = 1 THEN FlipBit(idx, target) ELSE idx

\* a log record a valid add* call leaves: qubits in range, and distinct
ValidRecord(rec) ==
    /\ \A k \in 1 .. Len(rec.qubits) : rec.qubits[k] \in 0 .. qubitCount - 1
    /\ Len(rec.qubits) = 2 => rec.qubits[1] # rec.qubits[2]

QubitsOf(log) == [k \in 1 .. Len(log) |-> log[k].qubits]

RECURSIVE SumCounts(_, _)
SumCounts(map, keys) ==
    IF keys = {} THEN 0
    ELSE LET key == CHOOSE k \in keys : TRUE
         IN  map[key] + SumCounts(map, keys \ {key})

IsBitString(key, n) == Len(key) = n /\ \A k \in 1 .. n : key[k] \in {0, 1}

\* a call of run has returned its histogram
RunReturned == last.op = "run" /\ pc = "idle" /\ last.error = "none"

(***************************************************************************)
(* C1.  When run is called on a log g1..gk (k >= 1) of valid records,      *)
(* every trial resets the register and replays g1..gk in order before it   *)
(* measures: the state a trial measures is the result of the whole log.    *)
(* Stated of the last trial: the register operations it replayed are the   *)
(* records of the log as it was at the call, and the state it measured is  *)
(* the replay of that log from |0...0>.                                    *)
(***************************************************************************)
C1_TrialReplaysLog ==
    (trial.done /\ Len(runLog) >= 1 /\ \A k \in 1 .. Len(runLog) : ValidRecord(runLog[k]))
        => /\ trial.replayed = QubitsOf(runLog)
           /\ trial.measured =
                  replayLoop(QuantumState(2^qubitCount), runLog, 1, qubitCount,
                             <<>>).amplitudes

(***************************************************************************)
(* C2.  addHadamard(q) and addX(q) with q in [0, n) complete without an    *)
(* error, replace the live amplitudes by the gate acting on qubit q and    *)
(* append exactly one record with qubits = [q] to the gate log.            *)
(***************************************************************************)
C2_AddSingleApplies ==
    [][(last'.op \in {"addHadamard", "addX"} /\ last'.params[1] < qubitCount)
          => LET gate == IF last'.op = "addHadamard" THEN H ELSE X
                 q == last'.params[1]
             IN  /\ last'.error = "none"
                 /\ amplitudes' = ActOn(gate, q, amplitudes)
                 /\ gates' = Append(gates, GateRecord(gate, <<q>>))]_vars

(***************************************************************************)
(* C3.  For distinct control and target in [0, n) the operator applyCNOT   *)
(* builds is the controlled-NOT permutation: it sends basis state idx to   *)
(* idx XOR (1 << target) when bit control of idx is 1, and to idx          *)
(* otherwise, for every idx in [0, 2^n).                                   *)
(***************************************************************************)
C3_CNOTPermutation ==
    \A control \in 0 .. qubitCount - 1, target \in 0 .. qubitCount - 1 :
        control # target =>
            \A idx \in 0 .. 2^qubitCount - 1 :
                LET res == applyCNOT(Collapsed(2^qubitCount, idx), qubitCount,
                                     control, target)
                IN  /\ res.ok
                    /\ res.value = Collapsed(2^qubitCount,
                                             CNOTImage(idx, control, target))

(***************************************************************************)
(* C4.  The gate log (of valid records) changes only by an add* call       *)
(* appending one record at its end and by the caller's reset() emptying    *)
(* it; run, measure and getState leave it as it was.                       *)
(***************************************************************************)
C4_LogFrame ==
    [][\/ \E k \in 1 .. Len(gates) : ~ValidRecord(gates[k])
       \/ gates' = gates
       \/ /\ last'.op \in {"addHadamard", "addX", "addCNOT"}
          /\ Len(gates') = Len(gates) + 1
          /\ SubSeq(gates', 1, Len(gates)) = gates
       \/ /\ last'.op = "reset"
          /\ gates' = <<>>]_vars

(***************************************************************************)
(* C5.  run(trials) returns a histogram whose counts sum to trials and     *)
(* whose every key is a string of n characters 0 or 1, the bit of qubit    *)
(* n-1 first: the key of a trial holds the bit measured for qubit j at     *)
(* place n - j, and is a key of the histogram.  The placing of the bits is *)
(* also stated of the measuring loop on every basis state and every draw,  *)
(* where the bits measured differ from one another.                        *)
(***************************************************************************)
\* the measuring loop of a trial on basis state idx, every draw being r
MeasureAllOf(idx, r) ==
    measureAllLoop(Collapsed(2^qubitCount, idx), [j \in 0 .. qubitCount - 1 |-> r],
                   0, qubitCount, <<>>, <<>>)

\* key holds n characters 0 or 1, the one of qubit j at place n - j
KeyPlacesBits(key, bits) ==
    /\ IsBitString(key, qubitCount)
    /\ \A j \in 0 .. qubitCount - 1 : key[qubitCount - j] = bits[j]

C5_Histogram ==
    /\ RunReturned =>
          /\ SumCounts(last.ret, DOMAIN last.ret) = last.params[1]
          /\ \A key \in DOMAIN last.ret : IsBitString(key, qubitCount)
    /\ trial.done =>
          /\ KeyPlacesBits(trial.key, trial.bits)
          /\ trial.key \in DOMAIN (IF pc = "run" THEN results ELSE last.ret)
          /\ \A idx \in 0 .. 2^qubitCount - 1, r \in Draws :
                 KeyPlacesBits(MeasureAllOf(idx, r).key, MeasureAllOf(idx, r).bits)

\* a run of MaxTrials trials on a circuit with a gate in its log has returned,
\* and the measuring loop yields a key of unlike characters on basis state 1
C5_Witness ==
    /\ RunReturned
    /\ last.params[1] = MaxTrials
    /\ Len(runLog) >= 1
    /\ SumCounts(last.ret, DOMAIN last.ret) = MaxTrials
    /\ qubitCount >= 2
    /\ \E r \in Draws :
           /\ MeasureAllOf(1, r).key[qubitCount] = 1
           /\ MeasureAllOf(1, r).key[1] = 0

(***************************************************************************)
(* C6.  Scenario B: on a 2-qubit circuit built by addHadamard(0) then      *)
(* addCNOT(0, 1), a trial of run never yields 01 or 10, and both 00 and 11 *)
(* are possible: the state a trial measures has no probability on indices  *)
(* 1 and 2 and some on indices 0 and 3.                                    *)
(***************************************************************************)
AddCall(op, qubits) == [op |-> op, qubits |-> qubits]

ScenarioB ==
    /\ qubitCount = 2
    /\ built = <<AddCall("addHadamard", <<0>>), AddCall("addCNOT", <<0, 1>>),
                 AddCall("run", <<>>)>>
    /\ trial.done

C6_BellOutcomes ==
    ScenarioB =>
        /\ trial.key \in {<<0, 0>>, <<1, 1>>}
        /\ getProbability(trial.measured, 1) = Zero
        /\ getProbability(trial.measured, 2) = Zero
        /\ getProbability(trial.measured, 0) # Zero
        /\ getProbability(trial.measured, 3) # Zero

(***************************************************************************)
(* C7.  Scenario C: on a fresh 1-qubit circuit, after addX(0) and no other *)
(* gate, measure(0) returns 1 whatever the random draw, and so does every  *)
(* measure(0) repeated after it.                                           *)
(***************************************************************************)
C7_FlipMeasuresOne ==
    (/\ qubitCount = 1
     /\ built = <<AddCall("addX", <<0>>)>>
     /\ last.op = "measure"
     /\ last.params = <<0>>)
        => last.ret = 1

(***************************************************************************)
(* C8.  Scenario E: after any calls, reset() followed by getState() yields *)
(* 2^n amplitudes with probability exactly 1 at index 0 and 0 at every     *)
(* other index.                                                            *)
(***************************************************************************)
IsZeroState(v, n) ==
    /\ DOMAIN v = 0 .. 2^n - 1
    /\ getProbability(v, 0) = One
    /\ \A idx \in 1 .. 2^n - 1 : getProbability(v, idx) = Zero

C8_ResetThenGetState ==
    (last.op = "getState" /\ last.after = "reset") => IsZeroState(last.ret, qubitCount)

\* getState has been called right after a reset
C8_Witness ==
    /\ last.op = "getState"
    /\ last.after = "reset"
    /\ IsZeroState(last.ret, qubitCount)

(***************************************************************************)
(* C9.  multiplyVector raises the dimension-mismatch error if and only if  *)
(* the vector's length differs from the matrix's column count, and an      *)
(* applyGate that fails so leaves the amplitudes as they were.             *)
(***************************************************************************)
C9_DimensionMismatch ==
    [][last'.op = "applyGate"
          => /\ (last'.error = "DimensionMismatch")
                    <=> (Length(amplitudes) # last'.params[1].cols)
             /\ last'.error \in {"none", "DimensionMismatch"}
             /\ last'.error # "none" => amplitudes' = amplitudes]_vars

\* an applyGate has failed on a state a gate had changed before
C9_Witness ==
    /\ last.op = "applyGate"
    /\ last.error = "DimensionMismatch"
    /\ amplitudes # QuantumState(Length(amplitudes))

(***************************************************************************)
(* C10.  measure() returns the first index at which the running sum of     *)
(* the probabilities is >= the drawn r, or 0 when no index is such, and in *)
(* every case leaves the basis vector at the returned index.               *)
(***************************************************************************)
RECURSIVE CumProb(_, _)
CumProb(amps, idx) ==
    IF idx < 0 THEN Zero ELSE NAdd(CumProb(amps, idx - 1), getProbability(amps, idx))

Qualifying(amps, r) == {idx \in DOMAIN amps : NLeq(r, CumProb(amps, idx))}

FirstQualifying(amps, r) ==
    IF Qualifying(amps, r) = {} THEN 0
    ELSE CHOOSE idx \in Qualifying(amps, r) : \A other \in Qualifying(amps, r) : idx <= other

C10_MeasureCollapses ==
    [][last'.op = "measure"
          => /\ last'.ret = FirstQualifying(amplitudes, last'.r)
             /\ amplitudes' = Collapsed(Length(amplitudes), last'.ret)]_vars

(***************************************************************************)
(* C11.  A call with an invalid argument fails with an error and leaves    *)
(* the amplitudes and the gate log as they were: addCNOT(c, t) with        *)
(* c = t, and addHadamard, addX, addCNOT and measure with a qubit index    *)
(* outside [0, qubitCount), never complete normally and never alter the    *)
(* amplitude vector or the log.                                            *)
(***************************************************************************)
\* the call recorded in c was given an invalid argument
InvalidCall(c) ==
    \/ /\ c.op \in {"addHadamard", "addX", "measure"}
       /\ c.params[1] \notin 0 .. qubitCount - 1
    \/ /\ c.op = "addCNOT"
       /\ \/ c.params[1] \notin 0 .. qubitCount - 1
          \/ c.params[2] \notin 0 .. qubitCount - 1
          \/ c.params[1] = c.params[2]

C11_InvalidArgsFail ==
    [][InvalidCall(last')
          => /\ last'.error # "none"
             /\ amplitudes' = amplitudes
             /\ gates' = gates]_vars

(***************************************************************************)
(* C12.  In every reachable state of a QuantumRegister of n qubits, after  *)
(* any applySingleQubitGate, applyCNOT, measureQubit and reset calls with  *)
(* in-range indices (calls that raised an error included), the live state  *)
(* holds exactly 2^n amplitudes.                                           *)
(***************************************************************************)
C12_StateSize == Length(amplitudes) = 2^qubitCount

(***************************************************************************)
(* C13.  measure() never returns a basis index that had probability 0      *)
(* before the call: for every amplitude vector whose probabilities sum to  *)
(* 1 and every draw r in [0, 1), r = 0 included, the returned outcome has  *)
(* a probability > 0 in the state before the call.                         *)
(***************************************************************************)
TotalProbability(amps) == CumProb(amps, Length(amps) - 1)

C13_OutcomeHadProbability ==
    [][(last'.op = "measure" /\ TotalProbability(amplitudes) = One)
          => getProbability(amplitudes, last'.ret) # Zero]_vars

====
